---- MODULE Spec2Model ----
(***************************************************************************)
(* Model of src/src/signals.rs: the process-wide relay state (ALIVE,       *)
(* INITIALIZED, SND, RCV), the mpsc channel behind SND/RCV, the OS handler *)
(* table written by signal(), the dispatch routine `handler`, and the      *)
(* operations of `Signals` and `SignalIter`.                               *)
(***************************************************************************)
EXTENDS Naturals, Sequences, FiniteSets

(***************************************************************************)
(* Bounds of the model.                                                    *)
(***************************************************************************)
\* calls of Signals::new() started over a run
MaxCalls == 2
\* invocations of the dispatch routine over a run
MaxRaise == 2

\* program threads
Threads == {"t1", "t2"}
\* the signal the threads of Spec subscribe to, unsubscribe from and receive
ModelSigs == {"Interrupt"}

(***************************************************************************)
(* Signal Catalog: enum Signal and its discriminants.                      *)
(***************************************************************************)
SignalCode ==
    [ Abort |-> 6, Alarm |-> 14, Bus |-> 10, Child |-> 18, Continue |-> 25,
      FPE |-> 8, Hangup |-> 1, Illegal |-> 4, Interrupt |-> 2, Kill |-> 9,
      Pipe |-> 13, Quit |-> 3, Poll |-> 22, Prof |-> 29, Segfault |-> 11,
      Stop |-> 23, TermStop |-> 20, Sys |-> 12, Terminate |-> 15, Trap |-> 5,
      TTIN |-> 26, TTOU |-> 27, Urgent |-> 21, User1 |-> 16, User2 |-> 17,
      WinSize |-> 28, XCPU |-> 30, XFSZ |-> 31 ]

Signal == DOMAIN SignalCode

\* `sig as c_int`
Code(s) == SignalCode[s]

\* the signals the enum documents as "cannot be caught or ignored"
Uncatchable == {"Kill", "Stop"}

\* the result of the match's fall-through arm `_ => Ok(())`: nothing is sent
NoSig == "NoSig"

\* the arms of the handler's match, in source order; each arm tests
\* `num == Signal::X as c_int` and sends Signal::X
MatchArms ==
    << "Abort", "Alarm", "Bus", "Child", "Continue", "FPE", "Hangup",
       "Illegal", "Interrupt", "Kill", "Pipe", "Quit", "Poll", "Prof",
       "Segfault", "Stop", "TermStop", "Sys", "Terminate", "Trap", "TTIN",
       "TTOU", "Urgent", "User1", "User2", "WinSize", "XCPU", "XFSZ" >>

Min(S) == CHOOSE x \in S : \A y \in S : x <= y

\* mutant of handler_match: the Interrupt arm is missing from the match, so
\* its code falls through to `_ => Ok(())`
handler_match_dropped_arm(num) ==
    LET hits == {i \in 1..Len(MatchArms) :
                    MatchArms[i] # "Interrupt" /\ Code(MatchArms[i]) = num}
    IN  IF hits = {} THEN NoSig ELSE MatchArms[Min(hits)]

\* mutant of handler_match: the TTIN arm sends the variant of the next arm
\* (a copy-and-paste slip in one line of the match)
handler_match_wrong_arm(num) ==
    LET hits == {i \in 1..Len(MatchArms) : Code(MatchArms[i]) = num}
    IN  IF hits = {} THEN NoSig
        ELSE IF MatchArms[Min(hits)] = "TTIN" THEN "TTOU"
        ELSE MatchArms[Min(hits)]

\* mutant of handler_match: the fall-through arm sends a value instead of
\* `Ok(())`
handler_match_default_sends(num) ==
    LET hits == {i \in 1..Len(MatchArms) : Code(MatchArms[i]) = num}
    IN  IF hits = {} THEN "Abort" ELSE MatchArms[Min(hits)]

\* the value the handler's match sends for `num`: the first arm whose guard
\* holds, NoSig when none does
handler_match(num) ==
    LET hits == {i \in 1..Len(MatchArms) : Code(MatchArms[i]) = num}
    IN  IF hits = {} THEN NoSig ELSE MatchArms[Min(hits)]

(***************************************************************************)
(* Primitives the code calls.                                              *)
(***************************************************************************)
\* mutant of compare_and_swap: a plain load followed by an unconditional
\* store that reports the flag as it was before any relay existed
compare_and_swap_blind(cur, expected, new) ==
    [old |-> FALSE, val |-> new]

\* mutant of compare_and_swap: the new value is never stored
compare_and_swap_no_store(cur, expected, new) ==
    [old |-> cur, val |-> cur]

\* mutant of compare_and_swap: a failed exchange writes `expected` back
compare_and_swap_reset(cur, expected, new) ==
    [old |-> cur, val |-> IF cur = expected THEN new ELSE expected]

\* AtomicBool::compare_and_swap(expected, new): returns the previous value
\* and stores `new` when the previous value is `expected`
compare_and_swap(cur, expected, new) ==
    [old |-> cur, val |-> IF cur = expected THEN new ELSE cur]

\* mutant of drop_store: drop leaves the flag set
drop_store_stale == TRUE

\* the value Drop stores into ALIVE
drop_store == FALSE

\* mutant of send: the value is pushed at the consuming end
send_front(q, v) == <<v>> \o q

\* Sender::send on the unbounded channel: push at the tail; the receiver is
\* leaked and never dropped, so the send never fails. The channel is taken
\* to serialize its operations: a send is one step, also when invocations
\* of the handler overlap
send(q, v) == Append(q, v)

\* what a consumer call returns when the queue is empty (Err(Empty), which
\* next() turns into None)
Nothing == [sig |-> "None", id |-> 0]

\* mutant of try_recv: pops the most recently pushed value
try_recv_newest(q) ==
    IF q = <<>>
    THEN [ok |-> FALSE, val |-> Nothing, rest |-> q]
    ELSE [ok |-> TRUE, val |-> q[Len(q)], rest |-> SubSeq(q, 1, Len(q) - 1)]

\* mutant of try_recv: returns the head without removing it
try_recv_peek(q) ==
    IF q = <<>>
    THEN [ok |-> FALSE, val |-> Nothing, rest |-> q]
    ELSE [ok |-> TRUE, val |-> Head(q), rest |-> q]

\* Receiver::try_recv: pops the head, or reports the queue empty
try_recv(q) ==
    IF q = <<>>
    THEN [ok |-> FALSE, val |-> Nothing, rest |-> q]
    ELSE [ok |-> TRUE, val |-> Head(q), rest |-> Tail(q)]

\* mutant of signal: a None handler leaves the disposition as it is
signal_none_ignored(tab, signum, hdlr) ==
    IF signum \in {Code(u) : u \in Uncatchable} \/ hdlr # "Some(handler)"
    THEN tab
    ELSE tab \cup {signum}

\* mutant of signal: the handler argument is ignored and the handler is
\* always installed (unsubscribe passing Some(handler))
signal_always_handler(tab, signum, hdlr) ==
    IF signum \in {Code(u) : u \in Uncatchable}
    THEN tab
    ELSE tab \cup {signum}

\* extern fn signal(signum, hdlr): sets the disposition of signum to the
\* handler (Some) or to the default (None); the OS refuses the uncatchable
\* signals and the declaration has no return value to report that
signal(tab, signum, hdlr) ==
    IF signum \in {Code(u) : u \in Uncatchable}
    THEN tab
    ELSE IF hdlr = "Some(handler)"
         THEN tab \cup {signum}
         ELSE tab \ {signum}

\* what the OS call signal(signum, ..) comes to: the OS refuses to change
\* the disposition of an uncatchable signal
signal_result(signum) ==
    IF signum \in {Code(u) : u \in Uncatchable} THEN "SIG_ERR" ELSE "ok"

\* what subscribe and unsubscribe return to their caller: both are declared
\* without a return type, as is the extern signal they call
subscribe_returns == "()"

\* mutant of drop_sigtab: drop restores the default disposition of every
\* signal (an automatic unsubscribe)
drop_sigtab_unsubscribe(tab) == {}

\* the handler table after Drop for Signals, which makes no signal() call
drop_sigtab(tab) == tab

\* mutant of proceeds: the check of the flag is missing
proceeds_unchecked(alive) == TRUE

\* mutant of proceeds: the check of the flag is inverted
proceeds_inverted(alive) == ~alive

\* handler: `if !ALIVE.load(Relaxed) { return; }`: whether the handler goes
\* on to the send, given the value it loaded
proceeds(alive) == alive

\* mutant of call_once_runs: the state of the Once is not consulted, every
\* call runs the closure
call_once_runs_every_call(st) == TRUE

\* mutant of call_once_runs: a caller that finds the closure running runs
\* it as well
call_once_runs_racy(st) == st # "complete"

\* Once::call_once: the caller runs the closure when no call has started it
call_once_runs(st) == st = "incomplete"

\* mutant of call_once_returns: a caller that finds the closure running
\* returns without waiting for it
call_once_returns_early(st) == st # "incomplete"

\* Once::call_once: a caller that does not run the closure returns when the
\* closure has completed, and waits while it is running
call_once_returns(st) == st = "complete"

(***************************************************************************)
(* State.                                                                  *)
(***************************************************************************)
VARIABLES
    ALIVE,        \* static ALIVE: AtomicBool
    INITIALIZED,  \* static INITIALIZED: Once ("incomplete", "running", "complete")
    SND,          \* static SND: *const Sender ("null" or "chan")
    RCV,          \* static RCV: *const Receiver ("null" or "chan")
    queue,        \* contents of the channel behind SND/RCV: the Signal values
                  \* sent, each tagged with the invocation (index into hs)
                  \* that sent it
    sigtab,       \* OS handler table: the signums whose disposition is `handler`
    pc,           \* per thread: position inside Signals::new()
    handles,      \* per thread: number of live Signals values it owns
    hs,           \* handler invocations in the order the OS made them: the
                  \* argument num, the position pc, the value of ALIVE it
                  \* loaded (seen), and as history the value of ALIVE when
                  \* it was invoked (alive) and the earlier invocations
                  \* that had not returned then (open)
    fault,        \* TRUE once a null endpoint has been dereferenced
    pushed,       \* history: indices into hs, in the order of their sends
    results,      \* history: what the consumer calls returned, in order
                  \* (a run of consecutive None results is recorded once)
    want,         \* history: the signums whose latest subscribe/unsubscribe
                  \* call was subscribe
    ignored,      \* history: the signums raised and left to the default
                  \* disposition since they last got that disposition
    raced,        \* history: TRUE once a call of new() began while another
                  \* thread was inside new()
    nSome,        \* history: calls of new() that returned Some
    nNone,        \* history: calls of new() that returned None
    nDrop,        \* history: handles dropped
    nInit,        \* history: runs of the call_once closure
    oscall,       \* history: the latest subscribe/unsubscribe call: what the
                  \* OS call came to (os) and what the method returned (ret)
    byReceiver    \* history: the tags of the values consumed through
                  \* receiver() rather than through iter()

vars == << ALIVE, INITIALIZED, SND, RCV, queue, sigtab, pc, handles, hs,
           fault, pushed, results, want, ignored, raced, nSome, nNone,
           nDrop, nInit, oscall, byReceiver >>

shared == << ALIVE, INITIALIZED, SND, RCV, queue >>
history == << pushed, results, want, ignored, raced, nSome, nNone, nDrop,
             nInit, oscall, byReceiver >>

RECURSIVE SumOver(_, _)
SumOver(f, S) ==
    IF S = {} THEN 0
    ELSE LET x == CHOOSE y \in S : TRUE IN f[x] + SumOver(f, S \ {x})

\* the history of consumer results extended by one more result
Record(log, v) ==
    IF v = Nothing /\ log # <<>> /\ log[Len(log)] = Nothing
    THEN log
    ELSE Append(log, v)

IsValue(v) == v # Nothing

\* the values the consumers have been given so far, in order
yielded == SelectSeq(results, IsValue)

\* the Signal values of a sequence of tagged values
Sigs(q) == [k \in 1..Len(q) |-> q[k].sig]

\* the tags of a sequence of tagged values
Ids(q) == [k \in 1..Len(q) |-> q[k].id]

\* number of live Signals values in the program
LiveHandles == SumOver(handles, Threads)

\* calls of new() started so far
Started == nSome + nNone + Cardinality({t \in Threads : pc[t] # "idle"})

Init ==
    /\ ALIVE = FALSE
    /\ INITIALIZED = "incomplete"
    /\ SND = "null"
    /\ RCV = "null"
    /\ queue = <<>>
    /\ sigtab = {}
    /\ pc = [t \in Threads |-> "idle"]
    /\ handles = [t \in Threads |-> 0]
    /\ hs = <<>>
    /\ fault = FALSE
    /\ pushed = <<>>
    /\ results = <<>>
    /\ want = {}
    /\ ignored = {}
    /\ raced = FALSE
    /\ nSome = 0
    /\ nNone = 0
    /\ nDrop = 0
    /\ nInit = 0
    /\ oscall = [os |-> "none", ret |-> "none"]
    /\ byReceiver = {}

(***************************************************************************)
(* Signals::new()                                                          *)
(***************************************************************************)
\* a thread enters Signals::new()
NewCall(t) ==
    /\ pc[t] = "idle"
    /\ Started < MaxCalls
    /\ pc' = [pc EXCEPT ![t] = "once"]
    /\ raced' = (raced \/ \E u \in Threads : pc[u] # "idle")
    /\ UNCHANGED << shared, sigtab, handles, hs, fault, pushed, results,
                    want, ignored, nSome, nNone, nDrop,
                    nInit, oscall, byReceiver >>

\* INITIALIZED.call_once: the first caller starts running the closure
OnceEnter(t) ==
    /\ pc[t] = "once"
    /\ call_once_runs(INITIALIZED)
    /\ INITIALIZED' = "running"
    /\ pc' = [pc EXCEPT ![t] = "init"]
    /\ UNCHANGED << ALIVE, SND, RCV, queue, sigtab, handles, hs, fault, history >>

\* the closure: channel(), box both ends, `SND = &*s`
InitSnd(t) ==
    /\ pc[t] = "init"
    /\ queue' = <<>>
    /\ SND' = "chan"
    /\ nInit' = nInit + 1
    /\ pc' = [pc EXCEPT ![t] = "init_rcv"]
    /\ UNCHANGED << ALIVE, INITIALIZED, RCV, sigtab, handles, hs, fault,
                    pushed, results, want, ignored, raced, nSome, nNone,
                    nDrop, oscall, byReceiver >>

\* the closure: `RCV = &*r`, forget both boxes
InitRcv(t) ==
    /\ pc[t] = "init_rcv"
    /\ RCV' = "chan"
    /\ pc' = [pc EXCEPT ![t] = "init_done"]
    /\ UNCHANGED << ALIVE, INITIALIZED, SND, queue, sigtab, handles, hs,
                    fault, history >>

\* the closure has returned: call_once marks the Once complete
OnceDone(t) ==
    /\ pc[t] = "init_done"
    /\ INITIALIZED' = "complete"
    /\ pc' = [pc EXCEPT ![t] = "cas"]
    /\ UNCHANGED << ALIVE, SND, RCV, queue, sigtab, handles, hs, fault,
                    history >>

\* INITIALIZED.call_once on a completed Once returns at once; a caller that
\* finds it running waits (no step) until it is complete
OnceSkip(t) ==
    /\ pc[t] = "once"
    /\ call_once_returns(INITIALIZED)
    /\ pc' = [pc EXCEPT ![t] = "cas"]
    /\ UNCHANGED << shared, sigtab, handles, hs, fault, history >>

\* ALIVE.compare_and_swap(false, true) and the return of None or Some(Signals)
NewCas(t) ==
    /\ pc[t] = "cas"
    /\ LET r == compare_and_swap(ALIVE, FALSE, TRUE)
       IN  /\ ALIVE' = r.val
           /\ IF r.old
              THEN /\ nNone' = nNone + 1
                   /\ UNCHANGED << handles, nSome >>
              ELSE /\ nSome' = nSome + 1
                   /\ handles' = [handles EXCEPT ![t] = @ + 1]
                   /\ UNCHANGED nNone
    /\ pc' = [pc EXCEPT ![t] = "idle"]
    /\ UNCHANGED << INITIALIZED, SND, RCV, queue, sigtab, hs, fault, pushed,
                    results, want, ignored, raced, nDrop,
                    nInit, oscall, byReceiver >>

(***************************************************************************)
(* Methods of the handle                                                   *)
(***************************************************************************)
\* a thread may call a method of the handle when it owns one and is not
\* inside new()
Holds(t) == pc[t] = "idle" /\ handles[t] > 0

\* Signals::subscribe(sig)
Subscribe(t, s) ==
    /\ Holds(t)
    /\ sigtab' = signal(sigtab, Code(s), "Some(handler)")
    /\ want' = want \cup {Code(s)}
    /\ ignored' = ignored \ sigtab'
    /\ oscall' = [os |-> signal_result(Code(s)), ret |-> subscribe_returns]
    /\ UNCHANGED << shared, pc, handles, hs, fault, pushed, results, raced,
                    nSome, nNone, nDrop, nInit, byReceiver >>

\* Signals::unsubscribe(sig)
Unsubscribe(t, s) ==
    /\ Holds(t)
    /\ sigtab' = signal(sigtab, Code(s), "None")
    /\ want' = want \ {Code(s)}
    /\ oscall' = [os |-> signal_result(Code(s)), ret |-> subscribe_returns]
    /\ UNCHANGED << shared, pc, handles, hs, fault, pushed, results, ignored,
                    raced, nSome, nNone, nDrop, nInit, byReceiver >>

\* Drop for Signals
Drop(t) ==
    /\ Holds(t)
    /\ ALIVE' = drop_store
    /\ sigtab' = drop_sigtab(sigtab)
    /\ handles' = [handles EXCEPT ![t] = @ - 1]
    /\ nDrop' = nDrop + 1
    /\ UNCHANGED << INITIALIZED, SND, RCV, queue, pc, hs, fault, pushed,
                    results, want, ignored, raced, nSome, nNone, nInit,
                    oscall, byReceiver >>

\* one consumer call on the receiving end: dereference RCV, try_recv
Consume(t) ==
    /\ Holds(t)
    /\ IF RCV = "null"
       THEN /\ fault' = TRUE
            /\ UNCHANGED << queue, results >>
       ELSE LET r == try_recv(queue)
            IN  /\ queue' = r.rest
                /\ results' = Record(results, r.val)
                /\ UNCHANGED fault
    /\ UNCHANGED << ALIVE, INITIALIZED, SND, RCV, sigtab, pc, handles, hs,
                    pushed, want, ignored, raced, nSome, nNone, nDrop,
                    nInit, oscall, byReceiver >>

\* SignalIter::next() on the iterator borrowed from the handle by iter()
IterNext(t) == Consume(t)

\* receiver().recv(): the borrowed receiving end, dereferenced from RCV,
\* waits (no step) while the queue is empty and then takes the oldest value
ReceiverRecv(t) ==
    /\ Holds(t)
    /\ IF RCV = "null"
       THEN /\ fault' = TRUE
            /\ UNCHANGED << queue, results, byReceiver >>
       ELSE LET r == try_recv(queue)
            IN  /\ queue # <<>>
                /\ queue' = r.rest
                /\ results' = Record(results, r.val)
                /\ byReceiver' = byReceiver \cup {r.val.id}
                /\ UNCHANGED fault
    /\ UNCHANGED << ALIVE, INITIALIZED, SND, RCV, sigtab, pc, handles, hs,
                    pushed, want, ignored, raced, nSome, nNone, nDrop,
                    nInit, oscall >>

(***************************************************************************)
(* The OS and the dispatch routine                                         *)
(***************************************************************************)
\* an invocation of handler(num) starts, concurrently with everything else
Invoke(num) ==
    /\ Len(hs) < MaxRaise
    /\ hs' = Append(hs, [num |-> num, pc |-> "load", seen |-> FALSE,
                         alive |-> ALIVE,
                         open |-> {j \in 1..Len(hs) : hs[j].pc # "ret"}])
    /\ UNCHANGED << shared, sigtab, pc, handles, fault, history >>

\* the OS delivers signum while its disposition is `handler`
RaiseHandled(signum) ==
    /\ signum \in sigtab
    /\ Invoke(signum)

\* the OS delivers signum while its disposition is the default: the
\* dispatch routine is not invoked
RaiseDefault(signum) ==
    /\ signum \notin sigtab
    /\ ignored' = ignored \cup {signum}
    /\ UNCHANGED << shared, sigtab, pc, handles, hs, fault, pushed, results,
                    want, raced, nSome, nNone, nDrop,
                    nInit, oscall, byReceiver >>

\* handler: `if !ALIVE.load(Relaxed) { return; }`
HandlerLoad(i) ==
    /\ i \in 1..Len(hs)
    /\ hs[i].pc = "load"
    /\ hs' = [hs EXCEPT ![i].pc = IF proceeds(ALIVE) THEN "send"
                                                       ELSE "ret",
                         ![i].seen = ALIVE]
    /\ UNCHANGED << shared, sigtab, pc, handles, fault, history >>

\* handler: dereference SND, match num, send, swallow the result
HandlerSend(i) ==
    /\ i \in 1..Len(hs)
    /\ hs[i].pc = "send"
    /\ hs' = [hs EXCEPT ![i].pc = "ret"]
    /\ IF SND = "null"
       THEN /\ fault' = TRUE
            /\ UNCHANGED << queue, pushed >>
       ELSE LET m == handler_match(hs[i].num)
            IN  /\ UNCHANGED fault
                /\ IF m = NoSig
                   THEN UNCHANGED << queue, pushed >>
                   ELSE /\ queue' = send(queue, [sig |-> m, id |-> i])
                        /\ pushed' = Append(pushed, i)
    /\ UNCHANGED << ALIVE, INITIALIZED, SND, RCV, sigtab, pc, handles,
                    results, want, ignored, raced, nSome, nNone, nDrop,
                    nInit, oscall, byReceiver >>

\* the steps of the threads T, the OS and the dispatch routine, with the
\* signals S
NextFor(T, S) ==
    \/ \E t \in T : NewCall(t)
    \/ \E t \in T : OnceEnter(t)
    \/ \E t \in T : InitSnd(t)
    \/ \E t \in T : InitRcv(t)
    \/ \E t \in T : OnceDone(t)
    \/ \E t \in T : OnceSkip(t)
    \/ \E t \in T : NewCas(t)
    \/ \E t \in T, s \in S : Subscribe(t, s)
    \/ \E t \in T, s \in S : Unsubscribe(t, s)
    \/ \E t \in T : Drop(t)
    \/ \E t \in T : IterNext(t)
    \/ \E s \in S : RaiseHandled(Code(s))
    \/ \E s \in S : RaiseDefault(Code(s))
    \/ \E i \in 1..MaxRaise : HandlerLoad(i)
    \/ \E i \in 1..MaxRaise : HandlerSend(i)

Next == NextFor(Threads, ModelSigs)

\* every thread of the program, one signal
Spec == Init /\ [][Next]_vars

\* the signums a run has dealt with so far
Touched == want \cup sigtab \cup ignored \cup {hs[i].num : i \in 1..Len(hs)}

\* SpecCatalog's one signal per run: a step that deals with s is taken only
\* when the run has dealt with no other signal
Only(s) == Touched' \subseteq {Code(s)}

NextCatalog ==
    \/ nSome = 0 /\ NewCall("t1")
    \/ OnceEnter("t1")
    \/ InitSnd("t1")
    \/ InitRcv("t1")
    \/ OnceDone("t1")
    \/ NewCas("t1")
    \/ \E s \in Signal : Subscribe("t1", s) /\ Only(s)
    \/ \E s \in Signal : Unsubscribe("t1", s) /\ Only(s)
    \/ \E s \in Signal : RaiseHandled(Code(s)) /\ Only(s)
    \/ \E s \in Signal : RaiseDefault(Code(s)) /\ Only(s)
    \/ \E i \in 1..MaxRaise : HandlerLoad(i)
    \/ \E i \in 1..MaxRaise : HandlerSend(i)
    \/ IterNext("t1")

\* one thread that creates the relay once, and any one signal of the
\* catalog per run
SpecCatalog == Init /\ [][NextCatalog]_vars

\* the numeric codes the dispatch routine is exercised with: every code of
\* the catalog, the codes the catalog leaves out between them, and one code
\* past each end
CInts ==
    LET C == {Code(s) : s \in Signal}
        hi == CHOOSE x \in C : \A y \in C : y <= x
    IN  (Min(C) - 1)..(hi + 1)

\* the dispatch routine as a function of its argument: one thread creates the
\* relay, and handler(num) is invoked with any one code of CInts per run,
\* registered or not
NextHandler ==
    \/ nSome = 0 /\ NewCall("t1")
    \/ OnceEnter("t1")
    \/ InitSnd("t1")
    \/ InitRcv("t1")
    \/ OnceDone("t1")
    \/ NewCas("t1")
    \/ \E num \in CInts : Invoke(num) /\ Touched' \subseteq {num}
    \/ \E i \in 1..MaxRaise : HandlerLoad(i)
    \/ \E i \in 1..MaxRaise : HandlerSend(i)
    \/ IterNext("t1")

SpecHandler == Init /\ [][NextHandler]_vars

\* the two access modes of one relay: the thread that holds the handle takes
\* values through iter() and through receiver(), in any order, while the
\* dispatch routine pushes
NextConsumers ==
    \/ nSome = 0 /\ NewCall("t1")
    \/ OnceEnter("t1")
    \/ InitSnd("t1")
    \/ InitRcv("t1")
    \/ OnceDone("t1")
    \/ NewCas("t1")
    \/ \E s \in ModelSigs : Subscribe("t1", s)
    \/ \E s \in ModelSigs : RaiseHandled(Code(s))
    \/ \E i \in 1..MaxRaise : HandlerLoad(i)
    \/ \E i \in 1..MaxRaise : HandlerSend(i)
    \/ IterNext("t1")
    \/ ReceiverRecv("t1")

SpecConsumers == Init /\ [][NextConsumers]_vars

TypeOK ==
    /\ ALIVE \in BOOLEAN
    /\ INITIALIZED \in {"incomplete", "running", "complete"}
    /\ SND \in {"null", "chan"}
    /\ RCV \in {"null", "chan"}
    /\ \A k \in 1..Len(queue) : queue[k].sig \in Signal
    /\ sigtab \subseteq {Code(s) : s \in Signal}
    /\ \A t \in Threads : pc[t] \in {"idle", "once", "init", "init_rcv", "init_done",
                                 "cas"}
    /\ \A t \in Threads : handles[t] \in Nat
    /\ fault \in BOOLEAN
    /\ nInit \in Nat
    /\ oscall.os \in {"none", "ok", "SIG_ERR"}
    /\ byReceiver \subseteq 1..MaxRaise

(***************************************************************************)
(* Properties.                                                             *)
(***************************************************************************)
\* the tagged values in the order the consumers get them: the values already
\* returned, then the values still queued
Delivery == yielded \o queue

\* number of values of Delivery sent by invocation i
Sent(i) == Cardinality({k \in 1..Len(Delivery) : Delivery[k].id = i})

\* invocation a had returned before invocation b was made
Before(a, b) == a < b /\ a \notin hs[b].open

\* the thread completes a call of new() in this step
Returns(t) == pc[t] = "cas" /\ pc'[t] = "idle"

\* C1: when no relay is active and the threads race in Signals::new(), exactly
\* one call returns a handle and every other call returns None, for every
\* interleaving: as long as no handle has been dropped, at most one call has
\* returned Some, and once any call has returned exactly one has.
C1_ExactlyOneWins ==
    nDrop = 0 =>
        /\ nSome <= 1
        /\ (nSome + nNone >= 1 => nSome = 1)

\* two calls that overlapped have both returned: one Some, one None
C1_Witness ==
    /\ raced
    /\ nDrop = 0
    /\ nSome = 1
    /\ nNone = 1
    /\ \A t \in Threads : pc[t] = "idle"

\* C2: in every reachable state at most one Signals handle exists.
C2_AtMostOneHandle == LiveHandles <= 1

\* a handle exists that was created after an earlier one was dropped
C2_Witness == LiveHandles = 1 /\ nDrop >= 1

\* C3: once every handle created so far has been dropped, the next call of
\* new() to return returns a handle, in every create/drop cycle.
C3_CreateAfterDrop ==
    [][ \A t \in Threads :
          (Returns(t) /\ nDrop >= 1 /\ nDrop = nSome)
             => (nSome' = nSome + 1 /\ handles'[t] = handles[t] + 1) ]_vars

\* a create has succeeded after a drop
C3_Witness == nDrop >= 1 /\ nSome = nDrop + 1 /\ ALIVE

\* C4: ALIVE is true if and only if a live Signals handle exists.
C4_AliveIffHandle == ALIVE <=> (LiveHandles >= 1)

\* the flag is false again after a handle was created and dropped
C4_Witness == ~ALIVE /\ nSome >= 1 /\ nDrop = nSome

\* C5: a call of new() running while a relay is active changes nothing of
\* the shared state (flag, Once, endpoints, queue, handler table, the
\* handles) at any of its steps, and returns None.
C5_FailedNewLeavesState ==
    [][ \A t \in Threads :
          (ALIVE /\ pc[t] # "idle" /\ pc'[t] # pc[t])
             => /\ UNCHANGED << ALIVE, INITIALIZED, SND, RCV, queue, sigtab,
                                handles, fault >>
                /\ Returns(t) => (nNone' = nNone + 1 /\ nSome' = nSome) ]_vars

\* a call has returned None while the relay is active and a value is queued
C5_Witness ==
    /\ nNone >= 1
    /\ ALIVE
    /\ LiveHandles = 1
    /\ queue # <<>>
    /\ nDrop = 0

\* C6 as claimed: values are delivered in the order of the invocations that
\* sent them, overlapping invocations included.
C6_InvocationOrder ==
    \A j, k \in 1..Len(Delivery) :
        j < k => Delivery[j].id < Delivery[k].id

\* C6 as amended: values are delivered in the order in which the
\* invocations of the handler sent them; of two invocations of which the
\* first had returned before the second was made, the first one's value is
\* delivered first.
C6_SendOrder ==
    /\ Ids(Delivery) = pushed
    /\ \A j, k \in 1..Len(Delivery) :
          Before(Delivery[j].id, Delivery[k].id) => j < k

\* two overlapping invocations sent in the reverse order and both values
\* have been consumed
C6_Witness == Ids(yielded) = <<2, 1>>

\* C7 as claimed: every invocation made while the relay was active has, once
\* it returned, contributed exactly one value, and the values are in the
\* order of the raises.
C7_EveryRaiseDelivered ==
    /\ \A i \in 1..Len(hs) :
          (hs[i].alive /\ hs[i].pc = "ret") => Sent(i) = 1
    /\ \A j, k \in 1..Len(Delivery) :
          j < k => Delivery[j].id <= Delivery[k].id

\* C7 as amended: an invocation contributes exactly one value, the Signal of
\* its signum, if it has returned after loading ALIVE = true, and no value
\* otherwise; values are delivered in the order sent, which is the order
\* raised for invocations that do not overlap.
C7_SeenRaiseDelivered ==
    /\ \A i \in 1..Len(hs) :
          Sent(i) = IF hs[i].pc = "ret" /\ hs[i].seen THEN 1 ELSE 0
    /\ \A k \in 1..Len(Delivery) :
          /\ Delivery[k].id \in 1..Len(hs)
          /\ Delivery[k].sig \in Signal
          /\ Code(Delivery[k].sig) = hs[Delivery[k].id].num
    /\ \A j, k \in 1..Len(Delivery) :
          Before(Delivery[k].id, Delivery[j].id) => k < j

\* create, subscribe(Interrupt), two raises one after the other, then the
\* consumer got Interrupt, Interrupt, None
C7_Witness ==
    /\ Len(hs) = 2
    /\ hs[2].open = {}
    /\ results = << [sig |-> "Interrupt", id |-> 1],
                    [sig |-> "Interrupt", id |-> 2], Nothing >>

\* C8: a consumer call is always possible for the holder of the handle
\* (it never waits), and a step that returns a result returns None and
\* leaves the queue alone when the queue is empty, and returns and removes
\* the head when it is not.
C8_NextNeverBlocks ==
    /\ [](\A t \in Threads : Holds(t) => ENABLED IterNext(t))
    /\ [][ results' # results =>
             IF queue = <<>>
             THEN results' = Append(results, Nothing) /\ queue' = queue
             ELSE results' = Append(results, Head(queue))
                  /\ queue' = Tail(queue) ]_vars

\* a call returned None and a later call returned a value
C8_Witness ==
    \E k \in 1..Len(results) : results[k] = Nothing /\ k < Len(results)

\* C9: for every variant s, the handler's match maps Code(s) back to s; the
\* codes are pairwise distinct; and in a run that subscribes to and raises
\* only s, every value delivered is s.
C9_RoundTrip ==
    /\ \A s \in Signal : handler_match(Code(s)) = s
    /\ \A s1, s2 \in Signal : Code(s1) = Code(s2) => s1 = s2
    /\ \A s \in Signal : \A k \in 1..Len(Delivery) :
          Touched \subseteq {Code(s)} => Delivery[k].sig = s

\* the variant of the last arm of the match has been subscribed, raised
\* and consumed
C9_Witness ==
    /\ Code("XFSZ") \in want
    /\ Sigs(yielded) = << "XFSZ" >>

\* C10: the handler table holds exactly the catchable signums whose latest
\* call was subscribe, so after subscribe(s), unsubscribe(s) the disposition
\* of s is the default; the handler is invoked only for a signum whose
\* disposition is the handler; and a raise left to the default disposition
\* changes neither the queue nor the invocations.
C10_UnsubscribeRestores ==
    /\ [](sigtab = want \ {Code(u) : u \in Uncatchable})
    /\ [][ Len(hs') > Len(hs) => hs'[Len(hs')].num \in sigtab ]_vars
    /\ [][ ignored' # ignored /\ sigtab' = sigtab
             => (queue' = queue /\ hs' = hs) ]_vars

\* Interrupt was subscribed and handled, then unsubscribed, then raised
\* again with nothing more enqueued
C10_Witness ==
    /\ Code("Interrupt") \in ignored
    /\ Code("Interrupt") \notin sigtab
    /\ Len(hs) = 1
    /\ hs[1].pc = "ret"
    /\ Len(Delivery) = 1

\* the codes of the catalog
Codes == {Code(s) : s \in Signal}

\* invocation i of the dispatch routine takes its step at pc `at` in this step
Steps(i, at) == i \in 1..Len(hs) /\ hs[i].pc = at /\ hs'[i].pc # at

\* C11: dropping the handle leaves the OS handler table unchanged: the drop
\* step changes no disposition, and at every moment, with or without a live
\* handle, exactly the catchable signals subscribed and not unsubscribed since
\* are registered to the dispatch routine.
C11_DropKeepsSubscriptions ==
    /\ [][ nDrop' # nDrop => sigtab' = sigtab ]_vars
    /\ [](sigtab = want \ {Code(u) : u \in Uncatchable})

\* a signal subscribed through a handle since dropped is still registered,
\* and a raise made with no live relay was dispatched to the handler
C11_Witness ==
    /\ nDrop >= 1
    /\ LiveHandles = 0
    /\ Code("Interrupt") \in sigtab
    /\ \E i \in 1..Len(hs) : ~hs[i].alive /\ hs[i].pc = "ret"

\* C12: when the OS registration call fails, subscribe and unsubscribe report
\* the failure to their caller as a returned failure value: whenever the
\* latest OS call came to SIG_ERR, the method returned Err.
C12_FailureReported == oscall.os = "SIG_ERR" => oscall.ret = "Err"

\* C13: the queue is gated by the flag: no value is pushed onto the queue in a
\* step taken while ALIVE is false.
C13_NoPushWhileInactive == [][ Len(queue') > Len(queue) => ALIVE ]_vars

\* C13, amended: a value is pushed only by an invocation that loaded
\* ALIVE = true at its check, every invocation past its check loaded true, and
\* the check records the flag as it is at the load (not as it is at the send).
C13_PushOnlyAfterSeenActive ==
    /\ [](\A k \in 1..Len(pushed) : hs[pushed[k]].seen)
    /\ [](\A i \in 1..Len(hs) : hs[i].pc = "send" => hs[i].seen)
    /\ [][ \A i \in 1..Len(hs) : Steps(i, "load") => hs'[i].seen = ALIVE ]_vars
    /\ [][ Len(queue') > Len(queue) =>
              \E i \in 1..Len(hs) : Steps(i, "send") /\ hs[i].seen ]_vars

\* invocation 1 passed its check before the only handle was dropped and sent
\* after invocation 2 was made with the flag cleared; invocation 2 sent
\* nothing
C13_Witness ==
    /\ nSome = 1
    /\ Len(hs) = 2
    /\ ~hs[2].alive /\ 1 \in hs[2].open
    /\ hs[1].seen /\ hs[1].pc = "ret" /\ Sent(1) = 1
    /\ ~hs[2].seen /\ hs[2].pc = "ret" /\ Sent(2) = 0

\* C14: an invocation that loads ALIVE = false returns at once: its step
\* leaves the queue, the flag and the handler table unchanged and ends the
\* invocation, which has sent nothing.
C14_InactiveReturns ==
    /\ [][ \A i \in 1..Len(hs) :
              (Steps(i, "load") /\ ~ALIVE) =>
                  /\ hs'[i].pc = "ret"
                  /\ UNCHANGED << queue, ALIVE, sigtab, SND, RCV, fault >> ]_vars
    /\ [](\A i \in 1..Len(hs) : (hs[i].pc = "ret" /\ ~hs[i].seen) => Sent(i) = 0)

\* a signal still registered fired with no live relay and its invocation
\* has returned
C14_Witness ==
    /\ LiveHandles = 0
    /\ nDrop = nSome
    /\ \E i \in 1..Len(hs) : ~hs[i].alive /\ ~hs[i].seen /\ hs[i].pc = "ret"
    /\ queue = <<>> /\ results = <<>>

\* C15: invoked with a code that is the code of no variant, the dispatch
\* routine discards the notification: the match yields nothing to send, the
\* step after the check leaves the queue unchanged, enters no error state and
\* ends the invocation, and every invocation, whatever its code, ends at its
\* send step without a fault.
C15_UnrecognizedDiscarded ==
    /\ [](\A num \in CInts \ Codes : handler_match(num) = NoSig)
    /\ [][ \A i \in 1..Len(hs) :
              Steps(i, "send") =>
                  /\ hs'[i].pc = "ret"
                  /\ ~fault'
                  /\ hs[i].num \notin Codes =>
                         UNCHANGED << queue, pushed, ALIVE, sigtab >> ]_vars
    /\ [](\A i \in 1..Len(hs) : hs[i].num \notin Codes => Sent(i) = 0)
    /\ [](~fault)

\* an invocation with a code outside the catalog passed the check with the
\* relay active and has returned
C15_Witness ==
    \E i \in 1..Len(hs) :
        /\ hs[i].num \notin Codes
        /\ hs[i].seen
        /\ hs[i].pc = "ret"
        /\ queue = <<>>

\* C16: the shared channel is established exactly once: the closure of
\* call_once runs at most once, has run (and set both endpoints) whenever the
\* Once is complete, a flag is set or a call has returned a handle, and once
\* an endpoint is set no step changes it.
C16_ChannelOnce ==
    /\ [](nInit <= 1)
    /\ []((INITIALIZED = "complete" \/ ALIVE \/ nSome >= 1) =>
              (nInit = 1 /\ SND = "chan" /\ RCV = "chan"))
    /\ [][ (SND # "null" => SND' = SND) /\ (RCV # "null" => RCV' = RCV) ]_vars
    /\ [][ INITIALIZED = "complete" => UNCHANGED << INITIALIZED, nInit >> ]_vars

\* the first calls were concurrent, a handle was dropped and a second relay
\* created, all on one run of the closure
C16_Witness ==
    /\ raced
    /\ nSome = 2
    /\ nDrop >= 1
    /\ nInit = 1
    /\ SND = "chan" /\ RCV = "chan"

\* C17: the flag is written only by create and drop: a step that changes
\* ALIVE is a call of new() returning a handle or a drop; the steps of the
\* dispatch routine, of subscribe and unsubscribe and of the consumers leave
\* ALIVE unchanged, and those of subscribe and unsubscribe leave the queue
\* and everything but the handler table unchanged too.
C17_FlagFrame ==
    /\ [][ ALIVE' # ALIVE => (nSome' = nSome + 1 \/ nDrop' = nDrop + 1) ]_vars
    /\ [][ (hs' # hs \/ results' # results \/ queue' # queue) =>
              ALIVE' = ALIVE ]_vars
    /\ [][ (want' # want \/ oscall' # oscall \/
            (sigtab' # sigtab /\ nDrop' = nDrop)) =>
              UNCHANGED << shared, pc, handles, hs, fault, pushed,
                           results >> ]_vars

\* with the relay active and a value queued, a signal was subscribed and
\* unsubscribed, two invocations have sent and one value was consumed
C17_Witness ==
    /\ ALIVE
    /\ nDrop = 0
    /\ oscall.os = "ok"
    /\ want = {}
    /\ Len(hs) = 2
    /\ hs[1].pc = "ret" /\ hs[2].pc = "ret"
    /\ Len(yielded) = 1
    /\ Len(queue) = 1

\* C18: iter() and receiver() drain the same queue: whatever the interleaving
\* of the two kinds of consumer call with the pushes, the values returned so
\* far followed by the values still queued are exactly the values pushed, in
\* push order and each once, so that no value is delivered to two calls or
\* lost and each consumer sees its values in queue order.
C18_OneQueue ==
    /\ Ids(yielded) \o Ids(queue) = pushed
    /\ \A j, k \in 1..Len(pushed) : j # k => pushed[j] # pushed[k]
    /\ byReceiver \subseteq {yielded[k].id : k \in 1..Len(yielded)}
    /\ \A k \in 1..Len(yielded) : yielded[k].id = pushed[k]

\* two overlapping invocations pushed, the first value pushed was taken
\* through receiver() and the second through iter()
C18_Witness ==
    /\ Ids(yielded) = << 2, 1 >>
    /\ byReceiver = {2}

\* C19: an endpoint is never null where it is dereferenced: no dereference has
\* faulted, SND is set whenever an invocation is past its check, and RCV is
\* set (the Once complete) whenever a thread holds a handle to call iter() or
\* receiver() on.
C19_EndpointsSet ==
    /\ ~fault
    /\ \A i \in 1..Len(hs) : hs[i].pc = "send" => SND = "chan"
    /\ \A t \in Threads : handles[t] > 0 =>
           (RCV = "chan" /\ SND = "chan" /\ INITIALIZED = "complete")

\* after concurrent first calls and a drop, the handler dereferenced SND and
\* a consumer dereferenced RCV
C19_Witness ==
    /\ raced
    /\ nDrop >= 1
    /\ Len(pushed) >= 1
    /\ Len(results) >= 2

\* C20: drop and create leave the queue contents unchanged: no step of a call
\* of new() and no drop changes the queue, and across relays the values
\* returned followed by the values queued remain the values pushed, in push
\* order.
C20_QueueSurvives ==
    /\ [][ (pc' # pc \/ handles' # handles) => queue' = queue ]_vars
    /\ [](Ids(Delivery) = pushed)
    /\ [][ nSome' # nSome => Ids(yielded' \o queue') = pushed ]_vars

\* the value sent during the first relay's lifetime (its invocation had
\* returned before invocation 2 was made with the flag cleared) is at the
\* head of the queue, unconsumed, with the second relay active
C20_Witness ==
    /\ nSome = 2
    /\ nDrop = 1
    /\ ALIVE
    /\ Len(hs) = 2
    /\ hs[1].seen /\ hs[1].pc = "ret"
    /\ 1 \notin hs[2].open
    /\ ~hs[2].alive
    /\ queue = << [sig |-> "Interrupt", id |-> 1] >>
    /\ results = <<>>
====
